---------------------------- MODULE Spec2Model ----------------------------
(***************************************************************************)
(* Model of the build and release scripts of phpinfo-insight-dashboard.    *)
(*                                                                         *)
(*   build-standalone.py   the bundle assembler: reads the template,       *)
(*                         fetches Tailwind and Alpine.js, rewrites the    *)
(*                         template with four regular-expression steps     *)
(*                         and writes build/phpinfo-insight-dashboard.php  *)
(*   create-release.py     the release wrapper: build, git tag, push,      *)
(*                         GitHub release, with operator prompts           *)
(*                                                                         *)
(* A document is a sequence of lexical tokens (strings).  The regular      *)
(* expressions of build-standalone.py are matched on the tokens the way    *)
(* Python's re matches them on the characters: a token is classified by    *)
(* where it holds the character '>', which is what decides how far the     *)
(* class [^>]* of the two tag patterns can run.                            *)
(***************************************************************************)
EXTENDS Integers, Sequences, FiniteSets, TLC

VARIABLES
    fs,           \* the file system: path -> document, or NoFile
    net,          \* what the two CDN urls serve: url -> document
    pc,           \* position of build-standalone.py main
    content,      \* main's local `content`
    tailwind_js,  \* main's local `tailwind_js`
    alpine_js,    \* main's local `alpine_js`
    exitCode,     \* exit status of the last run of build-standalone.py
    log,          \* the I/O events of the current run of build-standalone.py
    runs,         \* runs of build-standalone.py started so far
    outAtStart,   \* the output file as the current run found it
    lastBuilt,    \* the output a completed earlier run wrote, or NoFile
    template,     \* the template as it stood before the first run, or NoFile
    rpc,          \* position of create-release.py main
    repo,         \* the release wrapper's world: build file, tags, release
    rlog,         \* prompts answered and subprocesses run by create-release.py
    rexit,        \* exit status of create-release.py
    tagOk         \* the value create_git_tag returned to main

bvars == <<fs, net, pc, content, tailwind_js, alpine_js, exitCode, log, runs,
           outAtStart, lastBuilt, template>>
rvars == <<rpc, repo, rlog, rexit, tagOk>>
vars == <<bvars, rvars>>

\* ------------------------------------------------------------------ bounds

\* A template is the concatenation of at most MaxSegs segments.
MaxSegs == 3
\* build-standalone.py is run at most MaxRuns times in a row.
MaxRuns == 2

\* ------------------------------------------------------------------ tokens

NoFile == <<"(no such file)">>
None == <<"(None)">>

OPEN == "<script"
SRC_ALPINE == " src='https://unpkg.com/alpinejs@3.x.x/dist/cdn.min.js'"
SRC_TAILWIND == " src='https://cdn.tailwindcss.com'"
DEFER == " defer"
GT == ">"
END_SCRIPT == "</script>"
END_BODY == "</body>"
ALPINE_COMMENT == "<!-- Alpine -->"
HTML == "<html"
DOCTYPE == "<!DOCTYPE"

\* Tokens that hold no '>' at all: [^>]* runs over them.
NoGT == {OPEN, SRC_ALPINE, SRC_TAILWIND, DEFER, HTML, DOCTYPE,
         "x", "console.log(1)", "tailwind.js", "alpine.js"}
\* Tokens whose only '>' is their last character: [^>]* runs up to that
\* character and the '>' of the pattern matches it.
LastGT == {GT, END_SCRIPT, END_BODY, ALPINE_COMMENT,
           "<head>", "</head>", "<body>", "</html>"}

Min(S) == CHOOSE x \in S : \A y \in S : x <= y

\* The first token after position i that holds a '>', or 0.
FirstGT(s, i) ==
    LET S == {j \in (i + 1)..Len(s) : s[j] \notin NoGT}
    IN  IF S = {} THEN 0 ELSE Min(S)

\* <script[^>]* ... [^>]*></script> at position i: the position of the
\* closing </script>, or 0.  The attributes the pattern asks for lie strictly
\* between i and the token g holding the '>'.
ScriptTagEnd(s, i) ==
    IF s[i] # OPEN THEN 0
    ELSE LET g == FirstGT(s, i)
         IN  IF g = 0 \/ g + 1 > Len(s) THEN 0
             ELSE IF s[g] \in LastGT /\ s[g + 1] = END_SCRIPT THEN g + 1
             ELSE 0

\* r'<script[^>]*src=["\']https://unpkg\.com/alpinejs@[^"\']*["\'][^>]*defer[^>]*></script>'
alpine_pattern(s, i) ==
    LET e == ScriptTagEnd(s, i)
        g == e - 1
    IN  IF e # 0 /\ \E j \in (i + 1)..(g - 1) :
                       /\ s[j] = SRC_ALPINE
                       /\ \E k \in (j + 1)..(g - 1) : s[k] = DEFER
        THEN e ELSE 0

\* r'<script[^>]*src=["\']https://cdn\.tailwindcss\.com[^"\']*["\'][^>]*></script>'
tailwind_pattern(s, i) ==
    LET e == ScriptTagEnd(s, i)
        g == e - 1
    IN  IF e # 0 /\ \E j \in (i + 1)..(g - 1) : s[j] = SRC_TAILWIND
        THEN e ELSE 0

\* r'<!--\s*Alpine\s*-->'
comment_pattern(s, i) == IF s[i] = ALPINE_COMMENT THEN i ELSE 0

\* r'</body>'
body_pattern(s, i) == IF s[i] = END_BODY THEN i ELSE 0

\* The end of the match of pattern `pat` at position i, or 0.
MatchEnd(pat, s, i) ==
    CASE pat = "alpine" -> alpine_pattern(s, i)
      [] pat = "tailwind" -> tailwind_pattern(s, i)
      [] pat = "comment" -> comment_pattern(s, i)
      [] pat = "body" -> body_pattern(s, i)

\* re.sub(pattern, lambda m: repl, s): left to right, every match that does
\* not overlap an earlier one is replaced by repl; repl itself is not scanned.
RECURSIVE SubFrom(_, _, _, _)
SubFrom(pat, repl, s, i) ==
    IF i > Len(s) THEN <<>>
    ELSE LET e == MatchEnd(pat, s, i)
         IN  IF e # 0 THEN repl \o SubFrom(pat, repl, s, e + 1)
             ELSE <<s[i]>> \o SubFrom(pat, repl, s, i + 1)

re_sub(pat, repl, s) == SubFrom(pat, repl, s, 1)

\* Whether pattern `pat` matches somewhere in s.
Contains(pat, s) == \E i \in 1..Len(s) : MatchEnd(pat, s, i) # 0

\* ------------------------------------------------- build-standalone.py main

\* f'\n<script>\n{alpine_js}\n</script>\n'
alpine_replacement(js) == <<"\n<script>\n">> \o js \o <<"\n</script>\n">>

\* f'<script>\n{tailwind_js_str}\n</script>'
tailwind_replacement(js) == <<"<script>\n">> \o js \o <<"\n</script>">>

\* RelocateAlpine with the block put after </body> instead of before it.
RelocateAlpine_AfterBody(doc, js) ==
    LET noTag == re_sub("alpine", <<>>, doc)
        noComment == re_sub("comment", <<>>, noTag)
    IN  re_sub("body", <<END_BODY>> \o alpine_replacement(js), noComment)

\* RelocateAlpine with </body> replaced by the block alone.
RelocateAlpine_DropsBody(doc, js) ==
    LET noTag == re_sub("alpine", <<>>, doc)
        noComment == re_sub("comment", <<>>, noTag)
    IN  re_sub("body", alpine_replacement(js), noComment)

\* Lines 58-66: the Alpine.js tag is removed, then the marker comment, then
\* the inline block is put before </body>.
RelocateAlpine(doc, js) ==
    LET noTag == re_sub("alpine", <<>>, doc)
        noComment == re_sub("comment", <<>>, noTag)
    IN  re_sub("body", alpine_replacement(js) \o <<END_BODY>>, noComment)

\* Lines 68-72: the Tailwind tag is replaced in place by the inline block.
InlineTailwind(doc, js) == re_sub("tailwind", tailwind_replacement(js), doc)

\* Lines 78-84: the build info comment, `now` being datetime.now() as text.
build_info(now) ==
    <<"<!--\n * Built: ", now,
      "\n * Source: phpinfo-insight-dashboard.php\n * Alpine.js: Embedded inline\n * Tailwind CSS: Embedded inline (v4 JavaScript)\n -->\n">>

\* Lines 86-89: re.search(r'^(.*?)(<!DOCTYPE|<html)') finds the first
\* <!DOCTYPE or <html; the build info goes right before it.
AddBuildInfo(doc, now) ==
    LET S == {i \in 1..Len(doc) : doc[i] \in {DOCTYPE, HTML}}
    IN  IF S = {} THEN doc
        ELSE LET i == Min(S)
             IN  SubSeq(doc, 1, i - 1) \o build_info(now) \o SubSeq(doc, i, Len(doc))

\* ------------------------------------------------------------ build inputs

AlpineTag == <<OPEN, SRC_ALPINE, DEFER, GT, END_SCRIPT>>
TailwindTag == <<OPEN, SRC_TAILWIND, GT, END_SCRIPT>>

\* The pieces templates are made of: the two CDN tags, the anchors of the
\* rewriting steps, plain text, and the two halves of a script tag that
\* encloses whatever stands between them.
Segments ==
    {AlpineTag, TailwindTag, <<END_BODY>>, <<ALPINE_COMMENT>>, <<HTML>>,
     <<"x">>, <<OPEN, SRC_TAILWIND, GT>>, <<END_SCRIPT>>}

RECURSIVE Docs(_)
Docs(n) ==
    IF n = 0 THEN {<<>>}
    ELSE LET D == Docs(n - 1)
         IN  D \cup {d \o g : d \in D, g \in Segments}

\* <html><head><script src=".../alpinejs@3.x.x/dist/cdn.min.js" defer></script></head><body></body></html>
ExampleTemplate ==
    <<HTML, GT, "<head>">> \o AlpineTag \o <<"</head>", "<body>", END_BODY, "</html>">>

Templates == Docs(MaxSegs) \cup {ExampleTemplate}

\* What https://cdn.tailwindcss.com may serve.
TailwindPayloads == {<<"tailwind.js">>, <<"tailwind.js", END_BODY>>}
\* What https://unpkg.com/alpinejs@3.x.x/dist/cdn.min.js may serve.
AlpinePayloads == {<<"console.log(1)">>, <<"alpine.js">> \o TailwindTag}

\* datetime.now().strftime('%Y-%m-%d %H:%M:%S')
Timestamps == {"2026-01-01 10:00:00", "2026-01-01 10:00:01"}

tailwind_js_url == "https://cdn.tailwindcss.com"
alpine_js_url == "https://unpkg.com/alpinejs@3.x.x/dist/cdn.min.js"
source_file == "src/phpinfo-insight-dashboard.php"
\* The output path set to the template's own path.
output_file_is_source == source_file
output_file == "build/phpinfo-insight-dashboard.php"

\* How urlopen ends: a response, a URLError (HTTPError included), or any
\* other exception (a socket timeout, a UnicodeDecodeError in decode).
FetchOutcomes == {"ok", "URLError", "raise"}

Ev(op, what, val) == [op |-> op, what |-> what, val |-> val]

\* download_file(url, description), lines 14-28: the payload as text, or None
\* on URLError.  Both descriptions main uses select the UTF-8 decoding.
download_file(url, outcome) == IF outcome = "ok" THEN net[url] ELSE None

RelIdle ==
    /\ rpc = "off"
    /\ repo = [buildFile |-> FALSE, buildScript |-> FALSE, localTag |-> FALSE,
               remoteTag |-> FALSE, release |-> FALSE, gh |-> FALSE, git |-> FALSE]
    /\ rlog = <<>>
    /\ rexit = -1
    /\ tagOk = FALSE

Init ==
    /\ \E t \in Templates \cup {NoFile}, old \in {NoFile, <<"x">>} :
          fs = [p \in {source_file, output_file} |->
                   IF p = source_file THEN t ELSE old]
    /\ \E a \in TailwindPayloads, b \in AlpinePayloads :
          net = [u \in {tailwind_js_url, alpine_js_url} |->
                    IF u = tailwind_js_url THEN a ELSE b]
    /\ template = fs[source_file]
    /\ pc = "idle"
    /\ content = <<>>
    /\ tailwind_js = None
    /\ alpine_js = None
    /\ exitCode = -1
    /\ log = <<>>
    /\ runs = 0
    /\ outAtStart = NoFile
    /\ lastBuilt = NoFile
    /\ RelIdle

\* sys.exit(1), or an exception that reaches the top level: Python ends the
\* process with status 1.
Exit1(events) ==
    /\ pc' = "exited"
    /\ exitCode' = 1
    /\ log' = log \o events

\* python3 build-standalone.py is started.
StartBuild ==
    /\ pc \in {"idle", "done", "exited"}
    /\ runs < MaxRuns
    /\ pc' = "read"
    /\ runs' = runs + 1
    /\ log' = <<>>
    /\ exitCode' = -1
    /\ content' = <<>>
    /\ tailwind_js' = None
    /\ alpine_js' = None
    /\ outAtStart' = fs[output_file]
    /\ lastBuilt' = IF pc = "done" THEN fs[output_file] ELSE NoFile
    /\ UNCHANGED <<fs, net, template, rvars>>

\* ReadSource with the existence check left for later: a missing template
\* does not stop the run before the downloads.
ReadSource_Deferred ==
    /\ pc = "read"
    /\ content' = fs[source_file]
    /\ pc' = "tailwind"
    /\ log' = Append(log, Ev("read", source_file, "ok"))
    /\ UNCHANGED <<exitCode, fs, net, tailwind_js, alpine_js, runs, outAtStart,
                   lastBuilt, template, rvars>>

\* Lines 37-44: the template is read, or the run ends when it is missing.
ReadSource ==
    /\ pc = "read"
    /\ IF fs[source_file] = NoFile
       THEN Exit1(<<>>) /\ UNCHANGED content
       ELSE /\ content' = fs[source_file]
            /\ pc' = "tailwind"
            /\ log' = Append(log, Ev("read", source_file, "ok"))
            /\ UNCHANGED exitCode
    /\ UNCHANGED <<fs, net, tailwind_js, alpine_js, runs, outAtStart, lastBuilt, template, rvars>>

\* Lines 46-50.
FetchTailwind ==
    /\ pc = "tailwind"
    /\ \E outcome \in FetchOutcomes :
          LET got == download_file(tailwind_js_url, outcome)
              ev == <<Ev("download", "Tailwind CSS", outcome)>>
          IN  IF outcome = "raise" \/ got = None
              THEN Exit1(ev) /\ UNCHANGED tailwind_js
              ELSE /\ tailwind_js' = got
                   /\ pc' = "alpine"
                   /\ log' = log \o ev
                   /\ UNCHANGED exitCode
    /\ UNCHANGED <<fs, net, content, alpine_js, runs, outAtStart, lastBuilt, template, rvars>>

\* FetchAlpine without the `is None` check: after a URLError the run goes on
\* and the f-string renders None as text.
FetchAlpine_Unchecked ==
    /\ pc = "alpine"
    /\ \E outcome \in FetchOutcomes :
          LET got == download_file(alpine_js_url, outcome)
              ev == <<Ev("download", "Alpine.js", outcome)>>
          IN  IF outcome = "raise"
              THEN Exit1(ev) /\ UNCHANGED alpine_js
              ELSE /\ alpine_js' = IF got = None THEN <<"None">> ELSE got
                   /\ pc' = "relocate"
                   /\ log' = log \o ev
                   /\ UNCHANGED exitCode
    /\ UNCHANGED <<fs, net, content, tailwind_js, runs, outAtStart, lastBuilt,
                   template, rvars>>

\* Lines 52-56.
FetchAlpine ==
    /\ pc = "alpine"
    /\ \E outcome \in FetchOutcomes :
          LET got == download_file(alpine_js_url, outcome)
              ev == <<Ev("download", "Alpine.js", outcome)>>
          IN  IF outcome = "raise" \/ got = None
              THEN Exit1(ev) /\ UNCHANGED alpine_js
              ELSE /\ alpine_js' = got
                   /\ pc' = "relocate"
                   /\ log' = log \o ev
                   /\ UNCHANGED exitCode
    /\ UNCHANGED <<fs, net, content, tailwind_js, runs, outAtStart, lastBuilt, template, rvars>>

\* Lines 58-66.
StepRelocateAlpine ==
    /\ pc = "relocate"
    /\ content' = RelocateAlpine(content, alpine_js)
    /\ pc' = "inline"
    /\ UNCHANGED <<fs, net, tailwind_js, alpine_js, exitCode, log, runs,
                   outAtStart, lastBuilt, template, rvars>>

\* Lines 68-72.
StepInlineTailwind ==
    /\ pc = "inline"
    /\ content' = InlineTailwind(content, tailwind_js)
    /\ pc' = "info"
    /\ UNCHANGED <<fs, net, tailwind_js, alpine_js, exitCode, log, runs,
                   outAtStart, lastBuilt, template, rvars>>

\* Lines 77-89.
StepBuildInfo ==
    /\ pc = "info"
    /\ \E now \in Timestamps : content' = AddBuildInfo(content, now)
    /\ pc' = "write"
    /\ UNCHANGED <<fs, net, tailwind_js, alpine_js, exitCode, log, runs,
                   outAtStart, lastBuilt, template, rvars>>

\* Lines 91-102: the output is written and main returns (status 0); or
\* os.makedirs / open raises OSError and the run ends with nothing written.
WriteOutput ==
    /\ pc = "write"
    /\ \E ok \in BOOLEAN :
          IF ok
          THEN /\ fs' = [fs EXCEPT ![output_file] = content]
               /\ log' = Append(log, Ev("write", output_file, "ok"))
               /\ pc' = "done"
               /\ exitCode' = 0
          ELSE Exit1(<<Ev("write", output_file, "OSError")>>) /\ UNCHANGED fs
    /\ UNCHANGED <<net, content, tailwind_js, alpine_js, runs, outAtStart,
                   lastBuilt, template, rvars>>

Next ==
    \/ StartBuild
    \/ ReadSource
    \/ FetchTailwind
    \/ FetchAlpine
    \/ StepRelocateAlpine
    \/ StepInlineTailwind
    \/ StepBuildInfo
    \/ WriteOutput

Spec == Init /\ [][Next]_vars

\* --------------------------------------------------------- create-release.py

\* input(...).strip().lower() of what the operator types.
StripLower(raw) ==
    CASE raw = "Y" -> "y"
      [] raw = " YES " -> "yes"
      [] raw = "R" -> "r"
      [] raw = " Rebuild" -> "rebuild"
      [] OTHER -> raw

\* What the operator may type at a y/N prompt, and at the u/r prompt.
Answers == {"y", "Y", " YES ", "n", ""}
UseAnswers == {"r", " Rebuild", "u", ""}

\* in ('y', 'yes')
IsYes(a) == a \in {"y", "yes"}

\* A wrapper state w is [repo, log, ret]: the world, the events so far and the
\* value the function returns.
Logged(w, e) == [w EXCEPT !.log = Append(w.log, e)]
Returning(w, r) == [w EXCEPT !.ret = r]
Status(ok) == IF ok THEN "ok" ELSE "fail"

\* input(prompt).strip().lower(), recorded.
Asked(w, prompt, raw) == Logged(w, Ev("input", prompt, StripLower(raw)))

\* delete_git_tag(tag_name, remote), lines 35-59.  `git tag -d` fails with
\* CalledProcessError when delOk is false; the remote deletion is tried only
\* after it, and its failure is caught.
delete_git_tag(w, remote, delOk, remOk) ==
    LET w1 == Logged(w, Ev("run", "git rev-parse", Status(w.repo.localTag)))
        w2 == IF ~w.repo.localTag THEN w1
              ELSE IF delOk
                   THEN Logged([w1 EXCEPT !.repo.localTag = FALSE],
                               Ev("run", "git tag -d", "ok"))
                   ELSE Logged(w1, Ev("run", "git tag -d", "fail"))
    IN  IF w.repo.localTag /\ ~delOk THEN Returning(w2, FALSE)
        ELSE IF remote
             THEN Returning(
                     Logged(IF remOk THEN [w2 EXCEPT !.repo.remoteTag = FALSE] ELSE w2,
                            Ev("run", "git push --delete", Status(remOk))),
                     TRUE)
             ELSE Returning(w2, TRUE)

\* Lines 84-90: `git tag -a` succeeds when the tag is not there and git itself
\* does not fail.
GitTagA(w, gitOk) ==
    LET ok == ~w.repo.localTag /\ gitOk
    IN  Returning(Logged(IF ok THEN [w EXCEPT !.repo.localTag = TRUE] ELSE w,
                         Ev("run", "git tag -a", Status(ok))),
                  ok)

\* create_git_tag(version, force), lines 61-90.
create_git_tag(w, force, raw, delOk, gitOk) ==
    LET w1 == Logged(w, Ev("run", "git rev-parse", Status(w.repo.localTag)))
    IN  IF ~w.repo.localTag THEN GitTagA(w1, gitOk)
        ELSE IF force THEN GitTagA(delete_git_tag(w1, FALSE, delOk, TRUE), gitOk)
        ELSE LET w2 == Asked(w1, "Delete and recreate tag?", raw)
             IN  IF IsYes(StripLower(raw))
                 THEN GitTagA(delete_git_tag(w2, FALSE, delOk, TRUE), gitOk)
                 ELSE Returning(w2, FALSE)

\* delete_git_release(tag_name), lines 92-108.
delete_git_release(w, delOk) ==
    IF ~w.repo.gh
    THEN Returning(Logged(w, Ev("run", "gh --version", "fail")), FALSE)
    ELSE LET w1 == Logged(w, Ev("run", "gh --version", "ok"))
         IN  IF delOk
             THEN Returning(Logged([w1 EXCEPT !.repo.release = FALSE],
                                   Ev("run", "gh release delete", "ok")), TRUE)
             ELSE Returning(Logged(w1, Ev("run", "gh release delete", "fail")), FALSE)

\* Lines 138-147: `gh release create` succeeds when no release of that tag
\* exists and gh itself does not fail.
GhReleaseCreate(w, ghOk) ==
    LET ok == ~w.repo.release /\ ghOk
    IN  Returning(Logged(IF ok THEN [w EXCEPT !.repo.release = TRUE] ELSE w,
                         Ev("run", "gh release create", Status(ok))),
                  ok)

\* create_git_release(version, file_path, force), lines 110-155.
create_git_release(w, force, raw, delOk, ghOk) ==
    IF ~w.repo.gh
    THEN Returning(Logged(w, Ev("run", "gh --version", "fail")), FALSE)
    ELSE LET w1 == Logged(Logged(w, Ev("run", "gh --version", "ok")),
                          Ev("run", "gh release view", Status(w.repo.release)))
         IN  IF ~w.repo.release THEN GhReleaseCreate(w1, ghOk)
             ELSE IF force THEN GhReleaseCreate(delete_git_release(w1, delOk), ghOk)
             ELSE LET w2 == Asked(w1, "Delete and recreate release?", raw)
                  IN  IF IsYes(StripLower(raw))
                      THEN GhReleaseCreate(delete_git_release(w2, delOk), ghOk)
                      ELSE Returning(w2, FALSE)

\* run_build_script with the subprocess's status not looked at.
run_build_script_unchecked(w, buildOk) ==
    IF ~w.repo.buildScript THEN Returning(w, FALSE)
    ELSE Returning(Logged(IF buildOk THEN [w EXCEPT !.repo.buildFile = TRUE] ELSE w,
                          Ev("run", "build-standalone.py", Status(buildOk))), TRUE)

\* run_build_script(), lines 157-171: False when build-standalone.py is not
\* there or ends with a nonzero status; a run that ends with status 0 has
\* written the build file.
run_build_script(w, buildOk) ==
    IF ~w.repo.buildScript THEN Returning(w, FALSE)
    ELSE IF buildOk
         THEN Returning(Logged([w EXCEPT !.repo.buildFile = TRUE],
                               Ev("run", "build-standalone.py", "ok")), TRUE)
         ELSE Returning(Logged(w, Ev("run", "build-standalone.py", "fail")), FALSE)

\* main calls create_git_tag(version) and create_git_release(version,
\* build_file): force keeps its default, False.
tag_force_always == TRUE
tag_force == FALSE
release_force == FALSE

World == [repo |-> repo, log |-> rlog, ret |-> TRUE]

BuildIdle ==
    /\ fs = [p \in {source_file, output_file} |-> NoFile]
    /\ net = [u \in {tailwind_js_url, alpine_js_url} |-> <<>>]
    /\ pc = "off"
    /\ content = <<>>
    /\ tailwind_js = None
    /\ alpine_js = None
    /\ exitCode = -1
    /\ log = <<>>
    /\ runs = 0
    /\ outAtStart = NoFile
    /\ lastBuilt = NoFile
    /\ template = NoFile

InitRelease ==
    /\ BuildIdle
    /\ rpc = "build"
    /\ repo \in [buildFile : BOOLEAN, buildScript : BOOLEAN, localTag : BOOLEAN,
                 remoteTag : BOOLEAN, release : BOOLEAN, gh : BOOLEAN,
                 git : BOOLEAN]
    /\ rlog = <<>>
    /\ rexit = -1
    /\ tagOk = FALSE

\* sys.exit() with no status: the process ends with status 0.
RExit0(w) ==
    /\ rpc' = "exited"
    /\ rexit' = 0
    /\ repo' = w.repo
    /\ rlog' = w.log

\* sys.exit(1), or an exception nothing catches.
RExit1(w) ==
    /\ rpc' = "exited"
    /\ rexit' = 1
    /\ repo' = w.repo
    /\ rlog' = w.log

RGoto(w, next) ==
    /\ rpc' = next
    /\ repo' = w.repo
    /\ rlog' = w.log
    /\ UNCHANGED rexit

\* main, lines 176-209: the build file is used, rebuilt or built.
RBuild ==
    /\ rpc = "build"
    /\ \E raw \in UseAnswers, buildOk \in BOOLEAN :
          IF repo.buildFile
          THEN LET w1 == Asked(World, "Use existing build file or rebuild?", raw)
               IN  IF StripLower(raw) \in {"r", "rebuild"}
                   THEN LET w2 == run_build_script(w1, buildOk)
                        IN  IF ~w2.ret THEN RExit1(w2) ELSE RGoto(w2, "version")
                   ELSE RGoto(w1, "version")
          ELSE LET w2 == run_build_script(World, buildOk)
               IN  IF ~w2.ret \/ ~w2.repo.buildFile THEN RExit1(w2)
                   ELSE RGoto(w2, "version")
    /\ UNCHANGED <<tagOk, bvars>>

\* main, lines 211-216: the version is proposed and may be replaced.
RVersion ==
    /\ rpc = "version"
    /\ RGoto(Logged(World, Ev("input", "Enter version", "")), "tag")
    /\ UNCHANGED <<tagOk, bvars>>

\* main, lines 218-219 and 250-251.  Without a git binary the first
\* subprocess.run of create_git_tag raises FileNotFoundError, which nothing
\* catches: the process ends with status 1.
RTag ==
    /\ rpc = "tag"
    /\ \E raw \in Answers, delOk \in BOOLEAN, gitOk \in BOOLEAN :
          IF ~repo.git
          THEN RExit1(Logged(World, Ev("run", "git rev-parse", "FileNotFoundError")))
               /\ UNCHANGED tagOk
          ELSE LET w == create_git_tag(World, tag_force, raw, delOk, gitOk)
               IN  /\ tagOk' = w.ret
                   /\ RGoto(w, IF w.ret THEN "push" ELSE "finish")
    /\ UNCHANGED bvars

\* main, lines 221-244: the tag is pushed when the operator says so; a remote
\* tag of that name, when `git ls-remote` shows one (lsOk: it ran and printed
\* it), is deleted first when the operator says so.  A failure of either git
\* push is caught and reported.
RPush ==
    /\ rpc = "push"
    /\ \E raw \in Answers, rawDel \in Answers, lsOk \in BOOLEAN,
          remOk \in BOOLEAN, pushOk \in BOOLEAN :
          LET seen == repo.remoteTag /\ lsOk
              w1 == Asked(World, "Push tag to remote?", raw)
              w2 == Logged(w1, Ev("run", "git ls-remote", Status(seen)))
              w3 == IF ~seen THEN w2
                    ELSE Asked(w2, "Delete remote tag before pushing?", rawDel)
              w4 == IF seen /\ IsYes(StripLower(rawDel))
                    THEN Logged(IF remOk THEN [w3 EXCEPT !.repo.remoteTag = FALSE] ELSE w3,
                                Ev("run", "git push --delete", Status(remOk)))
                    ELSE w3
              w5 == Logged(IF pushOk THEN [w4 EXCEPT !.repo.remoteTag = TRUE] ELSE w4,
                           Ev("run", "git push", Status(pushOk)))
          IN  IF IsYes(StripLower(raw)) THEN RGoto(w5, "release")
              ELSE RGoto(w1, "release")
    /\ UNCHANGED <<tagOk, bvars>>

\* main, lines 246-249: the value create_git_release returns is not used.
RRelease ==
    /\ rpc = "release"
    /\ \E raw \in Answers, rawDel \in Answers, delOk \in BOOLEAN, ghOk \in BOOLEAN :
          LET w1 == Asked(World, "Create GitHub release?", raw)
          IN  IF IsYes(StripLower(raw))
              THEN RGoto(create_git_release(w1, release_force, rawDel, delOk, ghOk),
                         "finish")
              ELSE RGoto(w1, "finish")
    /\ UNCHANGED <<tagOk, bvars>>

\* main returns: the process ends with status 0.
RFinish ==
    /\ rpc = "finish"
    /\ rpc' = "done"
    /\ rexit' = 0
    /\ UNCHANGED <<repo, rlog, tagOk, bvars>>

NextRelease ==
    \/ RBuild
    \/ RVersion
    \/ RTag
    \/ RPush
    \/ RRelease
    \/ RFinish

SpecRelease == InitRelease /\ [][NextRelease]_vars

\* ------------------------------------------------- claims on the assembler

IsDownload(e, what, val) == e = Ev("download", what, val)

FetchFailed == \E i \in 1..Len(log) : log[i].op = "download" /\ log[i].val # "ok"

Wrote == \E i \in 1..Len(log) : log[i] = Ev("write", output_file, "ok")

\* C1: a write to the output path happens only after both fetches returned a
\* payload; a run in which a fetch failed has ended with status 1 and the
\* output file is as the run found it (not created, not overwritten).
C1_FetchFailureWritesNothing ==
    /\ \A i \in 1..Len(log) :
          log[i] = Ev("write", output_file, "ok") =>
             /\ \E j \in 1..(i - 1) : IsDownload(log[j], "Tailwind CSS", "ok")
             /\ \E k \in 1..(i - 1) : IsDownload(log[k], "Alpine.js", "ok")
    /\ FetchFailed =>
          /\ pc = "exited"
          /\ exitCode = 1
          /\ ~Wrote
          /\ fs[output_file] = outAtStart

\* A run ended by a failed Alpine.js fetch, with an earlier output in place.
C1_Witness ==
    /\ pc = "exited"
    /\ \E i \in 1..Len(log) : IsDownload(log[i], "Alpine.js", "URLError")
    /\ outAtStart # NoFile
    /\ fs[output_file] = outAtStart

\* C2: when the template does not exist the run ends with status 1 before
\* any network activity: download_file is never called and nothing is written.
C2_MissingTemplateNoNetwork ==
    (fs[source_file] = NoFile /\ pc \notin {"idle", "read"}) =>
       /\ pc = "exited"
       /\ exitCode = 1
       /\ \A i \in 1..Len(log) : log[i].op # "download"
       /\ ~Wrote
       /\ fs[output_file] = outAtStart

C2_Witness == fs[source_file] = NoFile /\ pc = "exited" /\ runs = 1

\* p occurs in d as a contiguous block.
IsInfix(p, d) ==
    \E i \in 0..(Len(d) - Len(p)) : SubSeq(d, i + 1, i + Len(p)) = p

\* C3: for a template with both CDN tags and a closing body boundary and any
\* two payloads, the written output holds no match of either tag pattern and
\* holds both payload texts verbatim.
C3_NoTagLeftBothPayloadsVerbatim ==
    (/\ pc = "done"
     /\ Contains("alpine", template)
     /\ Contains("tailwind", template)
     /\ Contains("body", template))
    => /\ ~Contains("alpine", fs[output_file])
       /\ ~Contains("tailwind", fs[output_file])
       /\ IsInfix(tailwind_js, fs[output_file])
       /\ IsInfix(alpine_js, fs[output_file])

RECURSIVE Flat(_)
Flat(ss) == IF ss = <<>> THEN <<>> ELSE Head(ss) \o Flat(Tail(ss))

\* The positions of t that lie inside a match of the Alpine.js tag pattern.
AlpineCovered(t) ==
    UNION {i..alpine_pattern(t, i) : i \in {j \in 1..Len(t) : alpine_pattern(t, j) # 0}}

\* t with every Alpine.js tag and every marker comment left out and the
\* inline block put before every </body>, position by position.
ExpectedRelocate(t, js) ==
    Flat([k \in 1..Len(t) |->
            IF k \in AlpineCovered(t) \/ t[k] = ALPINE_COMMENT THEN <<>>
            ELSE IF t[k] = END_BODY THEN alpine_replacement(js) \o <<END_BODY>>
            ELSE <<t[k]>>])

\* <html><head></head><body>\n<script>\nconsole.log(1)\n</script>\n</body></html>
ExampleOutput ==
    <<HTML, GT, "<head>", "</head>", "<body>", "\n<script>\n", "console.log(1)",
      "\n</script>\n", END_BODY, "</html>">>

Without(t, lo, hi) == SubSeq(t, 1, lo - 1) \o SubSeq(t, hi + 1, Len(t))

RECURSIVE StripBlocks(_, _)
StripBlocks(d, block) ==
    IF d = <<>> THEN <<>>
    ELSE IF Len(d) >= Len(block) /\ SubSeq(d, 1, Len(block)) = block
         THEN StripBlocks(SubSeq(d, Len(block) + 1, Len(d)), block)
         ELSE <<Head(d)>> \o StripBlocks(Tail(d), block)

NotMarker(tok) == tok # ALPINE_COMMENT

SameButBuilt(d1, d2) ==
    /\ Len(d1) = Len(d2)
    /\ \A i \in 1..Len(d1) :
          \/ d1[i] = d2[i]
          \/ /\ i > 1
             /\ d1[i - 1] = build_info(d1[i])[1]
             /\ d2[i - 1] = d1[i - 1]
             /\ {d1[i], d2[i]} \subseteq Timestamps
    /\ Cardinality({i \in 1..Len(d1) : d1[i] # d2[i]}) <= 1

\* C6: the template is never written, and the output of a run that follows a
\* completed run differs from that run's output in the Built: timestamp at
\* most.
C6_RerunSameButTimestamp ==
    /\ fs[source_file] = template
    /\ (pc = "done" /\ lastBuilt # NoFile) => SameButBuilt(lastBuilt, fs[output_file])

\* Two completed runs in a row whose outputs differ (in the timestamp).
C6_Witness ==
    /\ pc = "done"
    /\ lastBuilt # NoFile
    /\ lastBuilt # fs[output_file]
    /\ template # NoFile

\* C7: relocating payload B and then replacing payload A's tag gives the
\* document that replacing first and relocating second gives, for every
\* template and every two payloads.
C7_OrderIndependent ==
    pc = "info" =>
       content = RelocateAlpine(InlineTailwind(template, tailwind_js), alpine_js)

\* -------------------------------------------- claims on the release wrapper

Ran(i, what) == rlog[i].op = "run" /\ rlog[i].what = what

RanFailed(what) == \E i \in 1..Len(rlog) : Ran(i, what) /\ rlog[i].val = "fail"

\* C8 as stated: a run in which the build script, the tag creation, the tag
\* push or `gh release create` failed ends with status 1.
C8_AsStated ==
    (/\ rpc \in {"done", "exited"}
     /\ \E what \in {"build-standalone.py", "git tag -a", "git push", "gh release create"} :
           RanFailed(what))
    => rexit = 1

\* The run ended in the build step: before the version prompt.
EndedInBuild ==
    \A i \in 1..Len(rlog) : ~(rlog[i].op = "input" /\ rlog[i].what = "Enter version")

\* C8 (amended): the exit status is 1 when the build step fails (the build
\* script is missing, ends with a nonzero status or leaves no build file) or
\* git cannot be started at all; a run that returns from main ends with
\* status 0, also when the tag creation, the tag push or `gh release create`
\* failed there: those failures are reported and do not set the status.
C8_ExitStatus ==
    /\ rpc = "done" => rexit = 0
    /\ rpc = "exited" => rexit = 1 /\ (EndedInBuild \/ ~repo.git)
    /\ RanFailed("build-standalone.py") => rpc = "exited" /\ rexit = 1
    /\ rpc \in {"push", "release", "finish", "done"} => rexit # 1

\* A run that returned from main after the push and the release creation failed.
C8_Witness ==
    /\ rpc = "done"
    /\ rexit = 0
    /\ RanFailed("git push")
    /\ RanFailed("gh release create")

\* The prompt that stands before each deletion.
PromptOf(what) ==
    CASE what = "git tag -d" -> "Delete and recreate tag?"
      [] what = "git push --delete" -> "Delete remote tag before pushing?"
      [] what = "gh release delete" -> "Delete and recreate release?"

Deletions == {"git tag -d", "git push --delete", "gh release delete"}

\* C9: every deletion of a local tag, a remote tag or a GitHub release comes
\* after the prompt for that deletion was answered y or yes, and after any
\* other answer to that prompt (the empty one included) no such deletion is run.
C9_DeletionsConfirmed ==
    \A what \in Deletions :
       /\ \A i \in 1..Len(rlog) :
             Ran(i, what) =>
                \E j \in 1..(i - 1) :
                   /\ rlog[j].op = "input"
                   /\ rlog[j].what = PromptOf(what)
                   /\ rlog[j].val \in {"y", "yes"}
       /\ \A j \in 1..Len(rlog) :
             (/\ rlog[j].op = "input"
              /\ rlog[j].what = PromptOf(what)
              /\ rlog[j].val \notin {"y", "yes"})
             => \A i \in 1..Len(rlog) : ~Ran(i, what)

\* A finished run that deleted the local tag, the remote tag and the release.
C9_Witness ==
    /\ rpc = "done"
    /\ \A what \in Deletions :
          \E i \in 1..Len(rlog) : Ran(i, what) /\ rlog[i].val = "ok"

Publishing == {"git tag -a", "git push", "gh release create"}

\* C10: git tag, git push and gh release create are run only with the build
\* file in place and no failed run of the build script; a failed build, or a
\* build file still missing, ends the run with status 1 before the version
\* prompt and before any of them; gh release create is run only after
\* create_git_tag returned success.
C10_PublishOnlyBuilt ==
    /\ \A i \in 1..Len(rlog) :
          (\E what \in Publishing : Ran(i, what)) =>
             /\ repo.buildFile
             /\ ~RanFailed("build-standalone.py")
    /\ (RanFailed("build-standalone.py") \/ (rpc # "build" /\ ~repo.buildFile)) =>
          /\ rpc = "exited"
          /\ rexit = 1
          /\ \A i \in 1..Len(rlog) :
                /\ ~(rlog[i].op = "input" /\ rlog[i].what = "Enter version")
                /\ \A what \in Publishing : ~Ran(i, what)
    /\ \A i \in 1..Len(rlog) :
          Ran(i, "gh release create") =>
             /\ tagOk
             /\ \E j \in 1..(i - 1) : Ran(j, "git tag -a") /\ rlog[j].val = "ok"

\* A finished run that rebuilt, tagged and released.
C10_Witness ==
    /\ rpc = "done"
    /\ \E i \in 1..Len(rlog) : Ran(i, "build-standalone.py") /\ rlog[i].val = "ok"
    /\ \E i \in 1..Len(rlog) : Ran(i, "gh release create") /\ rlog[i].val = "ok"

=============================================================================
